---- MODULE Spec2Model ----
(***************************************************************************)
(* envcraft: parser, differ, schema validator and command dispatch of the  *)
(* .env tool, modelled from src/src/*.rs.                                  *)
(*                                                                         *)
(* A Rust String is a sequence of one-character strings, so that trim,     *)
(* find, slicing and comparison are computed as the code computes them.    *)
(* A Result is a record tagged "Ok" (field val) or "Err" (field err).      *)
(* A BTreeMap is a function whose domain is the key set; iteration over it *)
(* goes through SortedKeys.                                                *)
(***************************************************************************)
EXTENDS Integers, Sequences, FiniteSets, TLC

VARIABLES
    pc,         \* "ready" before the operation has run, "done" after
    call,       \* the operation under way and its arguments
    ret,        \* the value the operation returned
    fs,         \* the files the process can see: path -> content
    stdout,     \* the lines printed so far
    exit_code   \* the process exit code, once main has returned

vars == <<pc, call, ret, fs, stdout, exit_code>>

NoValue == [tag |-> "None"]

Ok(v) == [tag |-> "Ok", val |-> v]

Err(e) == [tag |-> "Err", err |-> e]

(***************************************************************************)
(* Characters and strings.                                                 *)
(***************************************************************************)

\* The characters the model uses, in ascending byte order (String's Ord
\* compares bytes).
CharOrder ==
    << "\t", "\n", "\r", " ", "\"", "#", "'", "+", ",", "-", ".",
       "0", "1", "2", "3", "4", "5", "6", "7", "8", "9", ":", "=",
       "A", "B", "C", "D", "E", "F", "G", "H", "I", "J", "K", "L", "M",
       "N", "O", "P", "Q", "R", "S", "T", "U", "V", "W", "X", "Y", "Z",
       "\\", "_",
       "a", "b", "c", "d", "e", "f", "g", "h", "i", "j", "k", "l", "m",
       "n", "o", "p", "q", "r", "s", "t", "u", "v", "w", "x", "y", "z" >>

CharCode(c) == CHOOSE i \in 1..Len(CharOrder) : CharOrder[i] = c

\* char::is_whitespace, on the model's characters
is_whitespace(c) == c \in {" ", "\t", "\n", "\r"}

RECURSIVE trim_start(_)
trim_start(s) ==
    IF s = <<>> THEN <<>>
    ELSE IF is_whitespace(Head(s)) THEN trim_start(Tail(s))
    ELSE s

RECURSIVE trim_end(_)
trim_end(s) ==
    IF s = <<>> THEN <<>>
    ELSE IF is_whitespace(s[Len(s)]) THEN trim_end(SubSeq(s, 1, Len(s) - 1))
    ELSE s

\* str::trim
trim(s) == trim_end(trim_start(s))

RECURSIVE find_from(_, _, _)
find_from(s, c, i) ==
    IF i > Len(s) THEN 0
    ELSE IF s[i] = c THEN i
    ELSE find_from(s, c, i + 1)

\* str::find(char): the 1-based position of the first occurrence, 0 for None
find(s, c) == find_from(s, c, 1)

\* String's Ord: lexicographic on bytes, a proper prefix is smaller
RECURSIVE str_lt(_, _)
str_lt(s, t) ==
    IF t = <<>> THEN FALSE
    ELSE IF s = <<>> THEN TRUE
    ELSE IF Head(s) # Head(t) THEN CharCode(Head(s)) < CharCode(Head(t))
    ELSE str_lt(Tail(s), Tail(t))

UpperChars ==
    << "A", "B", "C", "D", "E", "F", "G", "H", "I", "J", "K", "L", "M",
       "N", "O", "P", "Q", "R", "S", "T", "U", "V", "W", "X", "Y", "Z" >>

LowerChars ==
    << "a", "b", "c", "d", "e", "f", "g", "h", "i", "j", "k", "l", "m",
       "n", "o", "p", "q", "r", "s", "t", "u", "v", "w", "x", "y", "z" >>

\* str::to_lowercase, on the model's characters
to_lowercase(s) ==
    [i \in 1..Len(s) |->
        IF \E j \in 1..Len(UpperChars) : UpperChars[j] = s[i]
        THEN LowerChars[CHOOSE j \in 1..Len(UpperChars) : UpperChars[j] = s[i]]
        ELSE s[i]]

\* str::to_uppercase, on the model's characters
to_uppercase(s) ==
    [i \in 1..Len(s) |->
        IF \E j \in 1..Len(LowerChars) : LowerChars[j] = s[i]
        THEN UpperChars[CHOOSE j \in 1..Len(LowerChars) : LowerChars[j] = s[i]]
        ELSE s[i]]

\* The strings of length at most n over the characters cs
StringsUpTo(cs, n) == UNION { [1..k -> cs] : k \in 0..n }

\* Iteration order of a BTreeMap / BTreeSet of strings: ascending
RECURSIVE SortedKeys(_)
SortedKeys(S) ==
    IF S = {} THEN <<>>
    ELSE LET m == CHOOSE x \in S : \A y \in S : y = x \/ str_lt(x, y)
         IN  <<m>> \o SortedKeys(S \ {m})

\* BTreeMap::insert
insert(m, k, v) == [x \in DOMAIN m \cup {k} |-> IF x = k THEN v ELSE m[x]]

EmptyMap == [x \in {} |-> <<>>]

(***************************************************************************)
(* parser.rs                                                               *)
(***************************************************************************)

Comment(text) == [type |-> "Comment", text |-> text]

Blank == [type |-> "Blank"]

KeyValue(k, v) == [type |-> "KeyValue", key |-> k, value |-> v]

InvalidLine(n, content) == [kind |-> "InvalidLine", line |-> n, content |-> content]

\* A plausible slip: every layer of matching quotes is removed.
RECURSIVE strip_quotes_all(_)
strip_quotes_all(value) ==
    LET trimmed == trim(value) IN
    IF /\ Len(trimmed) >= 2
       /\ \/ trimmed[1] = "\"" /\ trimmed[Len(trimmed)] = "\""
          \/ trimmed[1] = "'" /\ trimmed[Len(trimmed)] = "'"
    THEN strip_quotes_all(SubSeq(trimmed, 2, Len(trimmed) - 1))
    ELSE trimmed

strip_quotes(value) ==
    LET trimmed == trim(value) IN
    IF /\ Len(trimmed) >= 2
       /\ \/ trimmed[1] = "\"" /\ trimmed[Len(trimmed)] = "\""
          \/ trimmed[1] = "'" /\ trimmed[Len(trimmed)] = "'"
    THEN SubSeq(trimmed, 2, Len(trimmed) - 1)
    ELSE trimmed

\* A plausible slip: the comment keeps the trimmed text, not the line.
parse_line_trimmed_comment(line, line_num) ==
    LET trimmed == trim(line) IN
    IF trimmed = <<>> THEN Ok(Blank)
    ELSE IF Head(trimmed) = "#" THEN Ok(Comment(trimmed))
    ELSE LET eq_pos == find(line, "=") IN
         IF eq_pos # 0
         THEN LET key   == trim(SubSeq(line, 1, eq_pos - 1))
                  value == trim(SubSeq(line, eq_pos + 1, Len(line)))
              IN  IF key = <<>> THEN Err(InvalidLine(line_num, line))
                  ELSE Ok(KeyValue(key, strip_quotes(value)))
         ELSE Err(InvalidLine(line_num, line))

parse_line(line, line_num) ==
    LET trimmed == trim(line) IN
    IF trimmed = <<>> THEN Ok(Blank)
    ELSE IF Head(trimmed) = "#" THEN Ok(Comment(line))
    ELSE LET eq_pos == find(line, "=") IN
         IF eq_pos # 0
         THEN LET key   == trim(SubSeq(line, 1, eq_pos - 1))
                  value == trim(SubSeq(line, eq_pos + 1, Len(line)))
              IN  IF key = <<>> THEN Err(InvalidLine(line_num, line))
                  ELSE Ok(KeyValue(key, strip_quotes(value)))
         ELSE Err(InvalidLine(line_num, line))

\* str::lines: split at "\n", a "\r" right before the "\n" goes with it; text
\* after the last "\n" is a line when it is not empty.
RECURSIVE str_lines(_)
str_lines(content) ==
    IF content = <<>> THEN <<>>
    ELSE LET nl == find(content, "\n") IN
         IF nl = 0 THEN <<content>>
         ELSE LET raw  == SubSeq(content, 1, nl - 1)
                  line == IF raw # <<>> /\ raw[Len(raw)] = "\r"
                          THEN SubSeq(raw, 1, Len(raw) - 1) ELSE raw
              IN  <<line>> \o str_lines(SubSeq(content, nl + 1, Len(content)))

EnvFile(lines, entries) == [lines |-> lines, entries |-> entries]

\* A plausible slip: a key already in the map keeps its first value.
RECURSIVE from_str_loop_first_wins(_, _, _, _)
from_str_loop_first_wins(ls, line_num, lines, entries) ==
    IF line_num >= Len(ls) THEN Ok(EnvFile(lines, entries))
    ELSE LET parsed == parse_line(ls[line_num + 1], line_num + 1) IN
         IF parsed.tag = "Err" THEN parsed
         ELSE from_str_loop_first_wins(ls, line_num + 1, Append(lines, parsed.val),
                  IF parsed.val.type = "KeyValue" /\ parsed.val.key \notin DOMAIN entries
                  THEN insert(entries, parsed.val.key, parsed.val.value)
                  ELSE entries)

\* A plausible slip: enumerate() is 0-based and the + 1 is forgotten.
RECURSIVE from_str_loop_zero_based(_, _, _, _)
from_str_loop_zero_based(ls, line_num, lines, entries) ==
    IF line_num >= Len(ls) THEN Ok(EnvFile(lines, entries))
    ELSE LET parsed == parse_line(ls[line_num + 1], line_num) IN
         IF parsed.tag = "Err" THEN parsed
         ELSE from_str_loop_zero_based(ls, line_num + 1, Append(lines, parsed.val),
                  IF parsed.val.type = "KeyValue"
                  THEN insert(entries, parsed.val.key, parsed.val.value)
                  ELSE entries)

\* The for loop of EnvFile::from_str; line_num is enumerate()'s 0-based index.
RECURSIVE from_str_loop(_, _, _, _)
from_str_loop(ls, line_num, lines, entries) ==
    IF line_num >= Len(ls) THEN Ok(EnvFile(lines, entries))
    ELSE LET parsed == parse_line(ls[line_num + 1], line_num + 1) IN
         IF parsed.tag = "Err" THEN parsed
         ELSE from_str_loop(ls, line_num + 1, Append(lines, parsed.val),
                  IF parsed.val.type = "KeyValue"
                  THEN insert(entries, parsed.val.key, parsed.val.value)
                  ELSE entries)

EnvFile_from_str(content) == from_str_loop(str_lines(content), 0, <<>>, EmptyMap)

Some(v) == [tag |-> "Some", val |-> v]

\* EnvFile::get, None as NoValue
get(file, key) ==
    IF key \in DOMAIN file.entries THEN Some(file.entries[key]) ELSE NoValue

\* EnvFile::keys
keys(file) == SortedKeys(DOMAIN file.entries)

(***************************************************************************)
(* diff.rs                                                                 *)
(***************************************************************************)

Added(k, v) == [type |-> "Added", key |-> k, value |-> v]

Removed(k, v) == [type |-> "Removed", key |-> k, value |-> v]

Changed(k, old, new) ==
    [type |-> "Changed", key |-> k, old_value |-> old, new_value |-> new]

DiffResult(entries) == [entries |-> entries]

\* for key in keys1.difference(&keys2): push Removed
removed_entries(file1, file2) ==
    LET ks == SortedKeys(DOMAIN file1.entries \ DOMAIN file2.entries) IN
    [i \in 1..Len(ks) |-> Removed(ks[i], get(file1, ks[i]).val)]

\* for key in keys2.difference(&keys1): push Added
added_entries(file1, file2) ==
    LET ks == SortedKeys(DOMAIN file2.entries \ DOMAIN file1.entries) IN
    [i \in 1..Len(ks) |-> Added(ks[i], get(file2, ks[i]).val)]

\* A plausible slip: old and new taken from the wrong files.
RECURSIVE changed_loop_swapped(_, _, _)
changed_loop_swapped(ks, file1, file2) ==
    IF ks = <<>> THEN <<>>
    ELSE LET value1 == get(file1, Head(ks)).val
             value2 == get(file2, Head(ks)).val
         IN  (IF value1 # value2 THEN <<Changed(Head(ks), value2, value1)>> ELSE <<>>)
                 \o changed_loop_swapped(Tail(ks), file1, file2)

\* A plausible slip: the value comparison is left out.
RECURSIVE changed_loop_unconditional(_, _, _)
changed_loop_unconditional(ks, file1, file2) ==
    IF ks = <<>> THEN <<>>
    ELSE <<Changed(Head(ks), get(file1, Head(ks)).val, get(file2, Head(ks)).val)>>
             \o changed_loop_unconditional(Tail(ks), file1, file2)

\* for key in keys1.intersection(&keys2): push Changed when the values differ
RECURSIVE changed_loop(_, _, _)
changed_loop(ks, file1, file2) ==
    IF ks = <<>> THEN <<>>
    ELSE LET value1 == get(file1, Head(ks)).val
             value2 == get(file2, Head(ks)).val
         IN  (IF value1 # value2 THEN <<Changed(Head(ks), value1, value2)>> ELSE <<>>)
                 \o changed_loop(Tail(ks), file1, file2)

changed_entries(file1, file2) ==
    changed_loop(SortedKeys(DOMAIN file1.entries \cap DOMAIN file2.entries), file1, file2)

\* Where a stable sort by key puts e in the sorted sequence s: after every
\* element whose key is not greater.
RECURSIVE insert_by_key(_, _)
insert_by_key(s, e) ==
    IF s = <<>> THEN <<e>>
    ELSE IF str_lt(e.key, Head(s).key) THEN <<e>> \o s
    ELSE <<Head(s)>> \o insert_by_key(Tail(s), e)

RECURSIVE sort_from(_, _)
sort_from(sorted, rest) ==
    IF rest = <<>> THEN sorted
    ELSE sort_from(insert_by_key(sorted, Head(rest)), Tail(rest))

\* A plausible slip: the sort is left out.
sort_by_key_omitted(entries) == entries

\* The order #[derive(Ord)] gives DiffEntry: by variant, then by key
VariantRank(e) == CASE e.type = "Added" -> 1 [] e.type = "Removed" -> 2 [] OTHER -> 3

RECURSIVE insert_by_derived_ord(_, _)
insert_by_derived_ord(s, e) ==
    IF s = <<>> THEN <<e>>
    ELSE IF \/ VariantRank(e) < VariantRank(Head(s))
            \/ VariantRank(e) = VariantRank(Head(s)) /\ str_lt(e.key, Head(s).key)
         THEN <<e>> \o s
    ELSE <<Head(s)>> \o insert_by_derived_ord(Tail(s), e)

RECURSIVE sort_derived_from(_, _)
sort_derived_from(sorted, rest) ==
    IF rest = <<>> THEN sorted
    ELSE sort_derived_from(insert_by_derived_ord(sorted, Head(rest)), Tail(rest))

\* A plausible slip: entries.sort(), which uses the derived order.
sort_by_key_derived_ord(entries) == sort_derived_from(<<>>, entries)

\* entries.sort_by(|a, b| a.key().cmp(b.key())): a stable sort
sort_by_key(entries) == sort_from(<<>>, entries)

diff(file1, file2) ==
    DiffResult(sort_by_key(removed_entries(file1, file2)
                               \o added_entries(file1, file2)
                               \o changed_entries(file1, file2)))

(***************************************************************************)
(* schema.rs                                                               *)
(***************************************************************************)

InvalidType(type_str, key) == [kind |-> "InvalidType", type_str |-> type_str, key |-> key]

\* ValueType::from_str
ValueType_from_str(s, key) ==
    LET lower == to_lowercase(s) IN
    IF lower = <<"s", "t", "r", "i", "n", "g">> THEN Ok("String")
    ELSE IF lower \in {<<"i", "n", "t">>, <<"i", "n", "t", "e", "g", "e", "r">>}
         THEN Ok("Int")
    ELSE IF lower \in {<<"b", "o", "o", "l">>, <<"b", "o", "o", "l", "e", "a", "n">>}
         THEN Ok("Bool")
    ELSE Err(InvalidType(s, key))

DigitChars == <<"0", "1", "2", "3", "4", "5", "6", "7", "8", "9">>

\* char::to_digit(10): the digit's value, -1 for None
to_digit(c) ==
    IF \E d \in 1..Len(DigitChars) : DigitChars[d] = c
    THEN (CHOOSE d \in 1..Len(DigitChars) : DigitChars[d] = c) - 1
    ELSE -1

\* i64::MAX = 9223372036854775807 and the magnitude of i64::MIN, as decimal
\* digits: the numbers are wider than the checker's integers, so an
\* accumulator is kept as its digit sequence without leading zeros.
I64MaxDigits == <<9, 2, 2, 3, 3, 7, 2, 0, 3, 6, 8, 5, 4, 7, 7, 5, 8, 0, 7>>

I64MinMagnitude == <<9, 2, 2, 3, 3, 7, 2, 0, 3, 6, 8, 5, 4, 7, 7, 5, 8, 0, 8>>

\* TRUE when the number with digits a exceeds the number with digits b
RECURSIVE digits_gt(_, _)
digits_gt(a, b) ==
    IF Len(a) # Len(b) THEN Len(a) > Len(b)
    ELSE IF a = <<>> THEN FALSE
    ELSE IF Head(a) # Head(b) THEN Head(a) > Head(b)
    ELSE digits_gt(Tail(a), Tail(b))

\* acc * 10 + d (or acc * 10 - d on the negative side, in magnitude)
mul10_add(acc, d) == IF acc = <<>> /\ d = 0 THEN <<>> ELSE Append(acc, d)

\* The digit loop of from_str_radix: checked_mul(10) then checked_add /
\* checked_sub of the digit, failing past the limit; an Err on a non-digit.
RECURSIVE digits_loop(_, _, _)
digits_loop(digits, acc, limit) ==
    IF digits = <<>> THEN Ok(acc)
    ELSE LET x == to_digit(Head(digits)) IN
         IF x < 0 THEN Err("InvalidDigit")
         ELSE IF digits_gt(mul10_add(acc, x), limit) THEN Err("Overflow")
         ELSE digits_loop(Tail(digits), mul10_add(acc, x), limit)

\* A plausible slip: only a leading "-" is taken as a sign.
parse_i64_minus_only(src) ==
    IF src = <<>> THEN Err("Empty")
    ELSE IF src = <<"-">> THEN Err("InvalidDigit")
    ELSE IF Head(src) = "-" THEN digits_loop(Tail(src), <<>>, I64MinMagnitude)
    ELSE digits_loop(src, <<>>, I64MaxDigits)

\* A plausible slip: the negative side shares the positive limit.
parse_i64_symmetric(src) ==
    IF src = <<>> THEN Err("Empty")
    ELSE IF src \in {<<"+">>, <<"-">>} THEN Err("InvalidDigit")
    ELSE IF Head(src) = "+" THEN digits_loop(Tail(src), <<>>, I64MaxDigits)
    ELSE IF Head(src) = "-" THEN digits_loop(Tail(src), <<>>, I64MaxDigits)
    ELSE digits_loop(src, <<>>, I64MaxDigits)

\* str::parse::<i64>, that is i64::from_str_radix(src, 10)
parse_i64(src) ==
    IF src = <<>> THEN Err("Empty")
    ELSE IF src \in {<<"+">>, <<"-">>} THEN Err("InvalidDigit")
    ELSE IF Head(src) = "+" THEN digits_loop(Tail(src), <<>>, I64MaxDigits)
    ELSE IF Head(src) = "-" THEN digits_loop(Tail(src), <<>>, I64MinMagnitude)
    ELSE digits_loop(src, <<>>, I64MaxDigits)

\* ValueType::validate
ValueType_validate(type, value) ==
    CASE type = "String" -> TRUE
      [] type = "Int"    -> parse_i64(value).tag = "Ok"
      [] type = "Bool"   ->
             LET lower == to_lowercase(value) IN
             lower = <<"t", "r", "u", "e">> \/ lower = <<"f", "a", "l", "s", "e">>

Schema(fields) == [fields |-> fields]

TypeError(key, expected_type, value) == <<key, expected_type, value>>

ValidationResult(missing, extra, type_errors) ==
    [missing |-> missing, extra |-> extra, type_errors |-> type_errors]

\* Vec<String>::sort
RECURSIVE insert_string(_, _)
insert_string(s, e) ==
    IF s = <<>> THEN <<e>>
    ELSE IF str_lt(e, Head(s)) THEN <<e>> \o s
    ELSE <<Head(s)>> \o insert_string(Tail(s), e)

RECURSIVE sort_strings_from(_, _)
sort_strings_from(sorted, rest) ==
    IF rest = <<>> THEN sorted
    ELSE sort_strings_from(insert_string(sorted, Head(rest)), Tail(rest))

sort_strings(s) == sort_strings_from(<<>>, s)

\* type_errors.sort_by(|a, b| a.0.cmp(&b.0)): a stable sort on the key
RECURSIVE insert_type_error(_, _)
insert_type_error(s, e) ==
    IF s = <<>> THEN <<e>>
    ELSE IF str_lt(e[1], Head(s)[1]) THEN <<e>> \o s
    ELSE <<Head(s)>> \o insert_type_error(Tail(s), e)

RECURSIVE sort_type_errors_from(_, _)
sort_type_errors_from(sorted, rest) ==
    IF rest = <<>> THEN sorted
    ELSE sort_type_errors_from(insert_type_error(sorted, Head(rest)), Tail(rest))

sort_type_errors(s) == sort_type_errors_from(<<>>, s)

\* The first loop of validate, over the schema's fields in key order:
\* the missing keys
RECURSIVE missing_loop(_, _, _)
missing_loop(ks, schema, env) ==
    IF ks = <<>> THEN <<>>
    ELSE (IF get(env, Head(ks)).tag = "None" THEN <<Head(ks)>> ELSE <<>>)
             \o missing_loop(Tail(ks), schema, env)

\* A plausible slip: a missing key is also checked against its type, as the
\* empty value.
RECURSIVE type_errors_loop_missing_too(_, _, _)
type_errors_loop_missing_too(ks, schema, env) ==
    IF ks = <<>> THEN <<>>
    ELSE LET key   == Head(ks)
             found == get(env, key)
             value == IF found.tag = "Some" THEN found.val ELSE <<>>
         IN  (IF ~ValueType_validate(schema.fields[key], value)
              THEN <<TypeError(key, schema.fields[key], value)>> ELSE <<>>)
                 \o type_errors_loop_missing_too(Tail(ks), schema, env)

\* The first loop of validate: the type errors
RECURSIVE type_errors_loop(_, _, _)
type_errors_loop(ks, schema, env) ==
    IF ks = <<>> THEN <<>>
    ELSE LET key   == Head(ks)
             found == get(env, key)
         IN  (IF found.tag = "Some" /\ ~ValueType_validate(schema.fields[key], found.val)
              THEN <<TypeError(key, schema.fields[key], found.val)>> ELSE <<>>)
                 \o type_errors_loop(Tail(ks), schema, env)

\* The second loop of validate, over the file's keys in order
RECURSIVE extra_loop(_, _)
extra_loop(ks, schema) ==
    IF ks = <<>> THEN <<>>
    ELSE (IF Head(ks) \notin DOMAIN schema.fields THEN <<Head(ks)>> ELSE <<>>)
             \o extra_loop(Tail(ks), schema)

validate(schema, env) ==
    ValidationResult(
        sort_strings(missing_loop(SortedKeys(DOMAIN schema.fields), schema, env)),
        sort_strings(extra_loop(keys(env), schema)),
        sort_type_errors(type_errors_loop(SortedKeys(DOMAIN schema.fields), schema, env)))

\* A plausible slip: an entry of unknown type is passed over, not returned.
RECURSIVE schema_fields_loop_skip_invalid(_, _, _)
schema_fields_loop_skip_invalid(ks, raw, fields) ==
    IF ks = <<>> THEN Ok(Schema(fields))
    ELSE LET value_type == ValueType_from_str(raw[Head(ks)], Head(ks)) IN
         IF value_type.tag = "Err"
         THEN schema_fields_loop_skip_invalid(Tail(ks), raw, fields)
         ELSE schema_fields_loop_skip_invalid(Tail(ks), raw,
                  insert(fields, Head(ks), value_type.val))

\* Schema::from_str after serde_yaml has decoded the document: the loop
\* over the raw key -> type-string mapping, in key order
RECURSIVE schema_fields_loop(_, _, _)
schema_fields_loop(ks, raw, fields) ==
    IF ks = <<>> THEN Ok(Schema(fields))
    ELSE LET value_type == ValueType_from_str(raw[Head(ks)], Head(ks)) IN
         IF value_type.tag = "Err" THEN value_type
         ELSE schema_fields_loop(Tail(ks), raw, insert(fields, Head(ks), value_type.val))

\* serde_yaml::from_str::<BTreeMap<String, String>>: a schema document is
\* held already decoded, as its mapping or as the mark that it does not
\* decode
serde_yaml_from_str(content) ==
    IF content.yaml = "mapping" THEN Ok(content.raw) ELSE Err([kind |-> "YamlError"])

Schema_from_str(content) ==
    LET raw == serde_yaml_from_str(content) IN
    IF raw.tag = "Err" THEN raw
    ELSE schema_fields_loop(SortedKeys(DOMAIN raw.val), raw.val, EmptyMap)

(***************************************************************************)
(* format.rs                                                               *)
(***************************************************************************)

FormattedEntry(key, original_key, value, preceding_comments) ==
    [key |-> key, original_key |-> original_key, value |-> value,
     preceding_comments |-> preceding_comments]

\* The first pass of format_env over env.lines
RECURSIVE collect_entries(_, _, _, _, _)
collect_entries(lines, entries, current_comments, header_comments, seen_first_entry) ==
    IF lines = <<>>
    THEN [entries |-> entries, current_comments |-> current_comments,
          header_comments |-> header_comments]
    ELSE LET line == Head(lines)
             text == IF line.type = "Comment" THEN line.text ELSE <<>>
         IN  IF line.type = "KeyValue"
             THEN collect_entries(Tail(lines),
                      Append(entries,
                             FormattedEntry(to_uppercase(line.key), line.key,
                                            trim(line.value), current_comments)),
                      <<>>, header_comments, TRUE)
             ELSE IF seen_first_entry
             THEN collect_entries(Tail(lines), entries, Append(current_comments, text),
                                  header_comments, seen_first_entry)
             ELSE collect_entries(Tail(lines), entries, current_comments,
                                  Append(header_comments, text), seen_first_entry)

\* A plausible slip: the sort is left out and entries keep the input order.
sort_formatted_omitted(entries) == entries

\* entries.sort_by(|a, b| a.key.cmp(&b.key)): a stable sort on the
\* uppercased key
sort_formatted(entries) == sort_from(<<>>, entries)

\* Each comment followed by "\n"
RECURSIVE push_comments(_)
push_comments(comments) ==
    IF comments = <<>> THEN <<>>
    ELSE Head(comments) \o <<"\n">> \o push_comments(Tail(comments))

\* A plausible slip: an entry's comment block is written after its line.
RECURSIVE push_entries_comments_after(_)
push_entries_comments_after(entries) ==
    IF entries = <<>> THEN <<>>
    ELSE Head(entries).key \o <<"=">> \o Head(entries).value \o <<"\n">>
             \o push_comments(Head(entries).preceding_comments)
             \o push_entries_comments_after(Tail(entries))

RECURSIVE push_entries(_)
push_entries(entries) ==
    IF entries = <<>> THEN <<>>
    ELSE push_comments(Head(entries).preceding_comments)
             \o Head(entries).key \o <<"=">> \o Head(entries).value \o <<"\n">>
             \o push_entries(Tail(entries))

\* The lines of a file without the key-value lines whose key is written
\* again further on
RECURSIVE last_lines_only(_)
last_lines_only(lines) ==
    IF lines = <<>> THEN <<>>
    ELSE IF /\ Head(lines).type = "KeyValue"
            /\ \E i \in 2..Len(lines) :
                   lines[i].type = "KeyValue" /\ lines[i].key = Head(lines).key
         THEN last_lines_only(Tail(lines))
         ELSE <<Head(lines)>> \o last_lines_only(Tail(lines))

\* A plausible variant: only the last line of a repeated key is formatted.
format_env_last_only(env) ==
    LET pass == collect_entries(last_lines_only(env.lines), <<>>, <<>>, <<>>, FALSE) IN
    push_comments(pass.header_comments)
        \o push_entries(sort_formatted(pass.entries))
        \o push_comments(pass.current_comments)

\* A plausible slip: the comments after the last entry are not written.
format_env_no_trailing(env) ==
    LET pass == collect_entries(env.lines, <<>>, <<>>, <<>>, FALSE) IN
    push_comments(pass.header_comments)
        \o push_entries(sort_formatted(pass.entries))

format_env(env) ==
    LET pass == collect_entries(env.lines, <<>>, <<>>, <<>>, FALSE) IN
    push_comments(pass.header_comments)
        \o push_entries(sort_formatted(pass.entries))
        \o push_comments(pass.current_comments)

(***************************************************************************)
(* The commands: run_check, run_diff, run_format and main.                 *)
(* A file is [mode, content]; a path the file system does not hold cannot  *)
(* be read, and a file of mode "ro" cannot be written.                     *)
(***************************************************************************)

IoError == [kind |-> "IoError"]

\* fs::read_to_string
read_to_string(files, path) ==
    IF path \in DOMAIN files THEN Ok(files[path].content) ELSE Err(IoError)

\* EnvFile::from_path
EnvFile_from_path(files, path) ==
    LET content == read_to_string(files, path) IN
    IF content.tag = "Err" THEN content ELSE EnvFile_from_str(content.val)

\* Schema::from_path
Schema_from_path(files, path) ==
    LET content == read_to_string(files, path) IN
    IF content.tag = "Err" THEN content ELSE Schema_from_str(content.val)

\* What a command leaves behind: its Result, what it printed, the files
Outcome(result, out, files) == [result |-> result, out |-> out, files |-> files]

\* A printed line of fixed wording, with the number it reports if any
Message(text, n) == [text |-> text, n |-> n]

\* A printed line made of a String
Printed(chars) == [chars |-> chars]

\* ValueType::description
description(type) ==
    CASE type = "String" -> "any string"
      [] type = "Int"    -> "an integer (e.g., 42, -10)"
      [] type = "Bool"   -> "true or false"

\* A plausible slip: has_issues is used, which also counts the extra keys.
is_valid_no_issues(result) ==
    result.missing = <<>> /\ result.extra = <<>> /\ result.type_errors = <<>>

\* ValidationResult::is_valid
is_valid(result) == result.missing = <<>> /\ result.type_errors = <<>>

run_check(files, schema_path, env_path) ==
    LET schema == Schema_from_path(files, schema_path) IN
    IF schema.tag = "Err" THEN Outcome(schema, <<>>, files)
    ELSE LET env == EnvFile_from_path(files, env_path) IN
         IF env.tag = "Err" THEN Outcome(env, <<>>, files)
         ELSE LET result == validate(schema.val, env.val)
                  lines ==
                      [i \in 1..Len(result.missing) |->
                          [text |-> "error: missing required key: {key}",
                           key |-> result.missing[i]]]
                      \o [i \in 1..Len(result.type_errors) |->
                          [text |-> "error: key '{key}' has invalid value '{actual_value}' (expected {})",
                           key |-> result.type_errors[i][1],
                           actual_value |-> result.type_errors[i][3],
                           expected |-> description(result.type_errors[i][2])]]
                      \o [i \in 1..Len(result.extra) |->
                          [text |-> "warning: extra key not in schema: {key}",
                           key |-> result.extra[i]]]
              IN  IF is_valid(result)
                  THEN Outcome(Ok(TRUE),
                           Append(lines,
                               IF result.extra = <<>>
                               THEN Message("validation passed", 0)
                               ELSE Message("validation passed with {} warning(s)",
                                            Len(result.extra))),
                           files)
                  ELSE Outcome(Ok(FALSE),
                           Append(lines,
                               Message("validation failed with {error_count} error(s)",
                                       Len(result.missing) + Len(result.type_errors))),
                           files)

\* A plausible slip: the redaction flag is honoured for Added and Removed
\* only.
DiffEntry_format_changed_unredacted(e, redact) ==
    CASE e.type = "Added" ->
             IF redact THEN <<"+", " ">> \o e.key
             ELSE <<"+", " ">> \o e.key \o <<"=">> \o e.value
      [] e.type = "Removed" ->
             IF redact THEN <<"-", " ">> \o e.key
             ELSE <<"-", " ">> \o e.key \o <<"=">> \o e.value
      [] e.type = "Changed" ->
             <<"~", " ">> \o e.key \o <<":", " ">> \o e.old_value
                 \o <<" ", "→", " ">> \o e.new_value

\* DiffEntry::format
DiffEntry_format(e, redact) ==
    CASE e.type = "Added" ->
             IF redact THEN <<"+", " ">> \o e.key
             ELSE <<"+", " ">> \o e.key \o <<"=">> \o e.value
      [] e.type = "Removed" ->
             IF redact THEN <<"-", " ">> \o e.key
             ELSE <<"-", " ">> \o e.key \o <<"=">> \o e.value
      [] e.type = "Changed" ->
             IF redact THEN <<"~", " ">> \o e.key
             ELSE <<"~", " ">> \o e.key \o <<":", " ">> \o e.old_value
                      \o <<" ", "→", " ">> \o e.new_value

run_diff(files, path1, path2, redact) ==
    LET file1 == EnvFile_from_path(files, path1) IN
    IF file1.tag = "Err" THEN Outcome(file1, <<>>, files)
    ELSE LET file2 == EnvFile_from_path(files, path2) IN
         IF file2.tag = "Err" THEN Outcome(file2, <<>>, files)
         ELSE LET result == diff(file1.val, file2.val) IN
              IF result.entries = <<>>
              THEN Outcome(Ok(TRUE), <<Message("Files are identical", 0)>>, files)
              ELSE Outcome(Ok(TRUE),
                       [i \in 1..Len(result.entries) |->
                           Printed(DiffEntry_format(result.entries[i], redact))]
                       \o <<Printed(<<>>),
                            Message("{} difference(s) found", Len(result.entries))>>,
                       files)

\* fs::write
write(files, path, content) ==
    IF path \in DOMAIN files /\ files[path].mode = "ro" THEN Err(IoError)
    ELSE Ok(insert(files, path, [mode |-> "rw", content |-> content]))

\* A plausible slip: the file is opened for writing, and so emptied, before
\* it is parsed.
run_format_truncates_first(files, path, in_place) ==
    LET env == EnvFile_from_path(files, path) IN
    IF env.tag = "Err"
    THEN Outcome(env, <<>>,
                 IF in_place /\ path \in DOMAIN files /\ files[path].mode = "rw"
                 THEN insert(files, path, [mode |-> "rw", content |-> <<>>])
                 ELSE files)
    ELSE LET formatted == format_env(env.val) IN
         IF in_place
         THEN LET written == write(files, path, formatted) IN
              IF written.tag = "Err" THEN Outcome(written, <<>>, files)
              ELSE Outcome(Ok(TRUE),
                           <<[text |-> "Formatted: {}", path |-> path]>>, written.val)
         ELSE Outcome(Ok(TRUE), <<Printed(formatted)>>, files)

run_format(files, path, in_place) ==
    LET env == EnvFile_from_path(files, path) IN
    IF env.tag = "Err" THEN Outcome(env, <<>>, files)
    ELSE LET formatted == format_env(env.val) IN
         IF in_place
         THEN LET written == write(files, path, formatted) IN
              IF written.tag = "Err" THEN Outcome(written, <<>>, files)
              ELSE Outcome(Ok(TRUE),
                           <<[text |-> "Formatted: {}", path |-> path]>>, written.val)
         ELSE Outcome(Ok(TRUE), <<Printed(formatted)>>, files)

\* The match on result at the end of main
exit_code_of(result) ==
    IF result.tag = "Ok" THEN (IF result.val THEN 0 ELSE 1) ELSE 2

(***************************************************************************)
(* One line through parse_line.                                            *)
(***************************************************************************)

MaxLineLen == 4

MaxValueLen == 4

LineChars == {" ", "#", "=", "a", "\""}

ValueChars == {" ", "\"", "'", "a", "\\"}

\* Any short line, and lines a=<value> with longer, quote-heavy values
LineInputs ==
    StringsUpTo(LineChars, MaxLineLen)
        \cup { <<"a", "=">> \o v : v \in StringsUpTo(ValueChars, MaxValueLen) }

InitLine ==
    /\ pc = "ready"
    /\ \E l \in LineInputs : call = [fn |-> "parse_line", line |-> l, line_num |-> 1]
    /\ ret = NoValue
    /\ fs = EmptyMap
    /\ stdout = <<>>
    /\ exit_code = NoValue

ParseLine ==
    /\ pc = "ready"
    /\ call.fn = "parse_line"
    /\ ret' = parse_line(call.line, call.line_num)
    /\ pc' = "done"
    /\ UNCHANGED <<call, fs, stdout, exit_code>>

SpecLine == InitLine /\ [][ParseLine]_vars

(***************************************************************************)
(* A whole text through EnvFile::from_str.                                 *)
(***************************************************************************)

MaxTextLen == 5

TextChars == {"a", "=", "#", " ", "\n", "\r"}

InitParse ==
    /\ pc = "ready"
    /\ \E t \in StringsUpTo(TextChars, MaxTextLen) : call = [fn |-> "from_str", content |-> t]
    /\ ret = NoValue
    /\ fs = EmptyMap
    /\ stdout = <<>>
    /\ exit_code = NoValue

FromStr ==
    /\ pc = "ready"
    /\ call.fn = "from_str"
    /\ ret' = EnvFile_from_str(call.content)
    /\ pc' = "done"
    /\ UNCHANGED <<call, fs, stdout, exit_code>>

SpecParse == InitParse /\ [][FromStr]_vars

(***************************************************************************)
(* The parser's contract, stated on the text itself: positions of the      *)
(* line breaks, of the first "=", of the first and last non-blank          *)
(* character.                                                              *)
(***************************************************************************)

SetMin(S) == CHOOSE x \in S : \A y \in S : x <= y

SetMax(S) == CHOOSE x \in S : \A y \in S : y <= x

\* s without its leading and trailing whitespace
Trimmed(s) ==
    LET solid == {i \in 1..Len(s) : ~is_whitespace(s[i])} IN
    IF solid = {} THEN <<>> ELSE SubSeq(s, SetMin(solid), SetMax(solid))

\* The positions where a physical line of t begins
LineStarts(t) == {p \in 1..Len(t) : p = 1 \/ t[p - 1] = "\n"}

\* The physical line of t that begins at p, without its line terminator
PhysicalLineAt(t, p) ==
    LET stop == SetMin({q \in p..Len(t) : t[q] = "\n"} \cup {Len(t) + 1})
        crlf == stop <= Len(t) /\ stop > p /\ t[stop - 1] = "\r"
    IN  SubSeq(t, p, IF crlf THEN stop - 2 ELSE stop - 1)

\* The physical lines of t, in order
PhysicalLines(t) ==
    [i \in 1..Cardinality(LineStarts(t)) |->
        PhysicalLineAt(t, CHOOSE p \in LineStarts(t) :
                              Cardinality({q \in LineStarts(t) : q <= p}) = i)]

IsBlankLine(l) == \A i \in 1..Len(l) : is_whitespace(l[i])

IsCommentLine(l) ==
    \E i \in 1..Len(l) : l[i] = "#" /\ \A j \in 1..(i - 1) : is_whitespace(l[j])

FirstEq(l) == SetMin({i \in 1..Len(l) : l[i] = "="})

IsKeyValueLine(l) ==
    /\ ~IsBlankLine(l)
    /\ ~IsCommentLine(l)
    /\ \E i \in 1..Len(l) : l[i] = "="
    /\ \E j \in 1..(FirstEq(l) - 1) : ~is_whitespace(l[j])

IsMalformedLine(l) == ~IsBlankLine(l) /\ ~IsCommentLine(l) /\ ~IsKeyValueLine(l)

\* The parsed element e is the classification of the physical line l
ClassifiedAs(l, e) ==
    \/ IsBlankLine(l) /\ e = Blank
    \/ ~IsBlankLine(l) /\ IsCommentLine(l) /\ e = Comment(l)
    \/ /\ IsKeyValueLine(l)
       /\ e.type = "KeyValue"
       /\ e.key = Trimmed(SubSeq(l, 1, FirstEq(l) - 1))
       /\ e.key # <<>>

\* C8: every physical line is classified as exactly one of Blank, Comment
\* (holding the untrimmed line, even when it contains "="), KeyValue (key =
\* the trimmed text before the first "=", non-empty) or makes the parse fail;
\* a successful parse has one element per physical line, in input order.
C8_LineClassification ==
    pc = "done" =>
        LET phys == PhysicalLines(call.content) IN
        IF \E i \in 1..Len(phys) : IsMalformedLine(phys[i])
        THEN ret.tag = "Err"
        ELSE /\ ret.tag = "Ok"
             /\ Len(ret.val.lines) = Len(phys)
             /\ \A i \in 1..Len(phys) : ClassifiedAs(phys[i], ret.val.lines[i])

\* A parsed text with a comment that contains "=" and a key-value line
C8_Witness ==
    /\ pc = "done"
    /\ ret.tag = "Ok"
    /\ Len(ret.val.lines) >= 2
    /\ \E i \in 1..Len(ret.val.lines) :
           /\ ret.val.lines[i].type = "Comment"
           /\ \E j \in 1..Len(ret.val.lines[i].text) : ret.val.lines[i].text[j] = "="
    /\ \E i \in 1..Len(ret.val.lines) : ret.val.lines[i].type = "KeyValue"

MalformedLines(t) ==
    {i \in 1..Len(PhysicalLines(t)) : IsMalformedLine(PhysicalLines(t)[i])}

\* C9: the parse fails exactly when some line is malformed (not blank, not a
\* comment, and without "=" or with an empty key); the error is InvalidLine
\* with the 1-based number and raw content of the first such line, and the
\* result holds nothing else (no partial file).
C9_FirstMalformedLineAborts ==
    pc = "done" =>
        LET bad == MalformedLines(call.content) IN
        /\ (ret.tag = "Err") <=> (bad # {})
        /\ bad # {} =>
               ret = Err(InvalidLine(SetMin(bad),
                                     PhysicalLines(call.content)[SetMin(bad)]))

\* A failed parse whose first malformed line is not line 1 and is not the
\* only malformed line
C9_Witness ==
    /\ pc = "done"
    /\ ret.tag = "Err"
    /\ ret.err.line >= 2
    /\ Cardinality(MalformedLines(call.content)) >= 2

QuoteChars == {"\"", "'"}

IsQuoted(raw) == Len(raw) >= 2 /\ raw[1] = raw[Len(raw)] /\ raw[1] \in QuoteChars

\* C10: the value of a KeyValue line is the trimmed text after the first
\* "=", less one layer of surrounding quotes exactly when that text has
\* length >= 2 and begins and ends with the same quote character; anything
\* else (a lone quote, mismatched quotes, inner quotes, backslashes, a second
\* layer of quotes) is left as it is.
C10_OneQuoteLayer ==
    (pc = "done" /\ ret.tag = "Ok" /\ ret.val.type = "KeyValue") =>
        LET l   == call.line
            raw == Trimmed(SubSeq(l, FirstEq(l) + 1, Len(l)))
        IN  ret.val.value = IF IsQuoted(raw) THEN SubSeq(raw, 2, Len(raw) - 1) ELSE raw

\* A value that lost one layer of quotes and still has one
C10_Witness ==
    /\ pc = "done"
    /\ ret.tag = "Ok"
    /\ ret.val.type = "KeyValue"
    /\ IsQuoted(Trimmed(SubSeq(call.line, FirstEq(call.line) + 1, Len(call.line))))
    /\ IsQuoted(ret.val.value)

(***************************************************************************)
(* Two parsed files through diff.                                          *)
(***************************************************************************)

MaxDiffLines == 2

\* a=1 | a = 2 | B=1 | ab=1 | ab=2 | #a=1
DiffLines ==
    { <<"a", "=", "1">>, <<"a", " ", "=", " ", "2">>, <<"B", "=", "1">>,
      <<"a", "b", "=", "1">>, <<"a", "b", "=", "2">>, <<"#", "a", "=", "1">> }

\* The text whose lines are ls, each ended by "\n"
RECURSIVE join_lines(_)
join_lines(ls) ==
    IF ls = <<>> THEN <<>> ELSE Head(ls) \o <<"\n">> \o join_lines(Tail(ls))

DiffInputs == UNION { [1..n -> DiffLines] : n \in 0..MaxDiffLines }

InitDiff ==
    /\ pc = "ready"
    /\ \E l1 \in DiffInputs, l2 \in DiffInputs :
           call = [fn |-> "diff", lines1 |-> l1, lines2 |-> l2,
                   file1 |-> EnvFile_from_str(join_lines(l1)).val,
                   file2 |-> EnvFile_from_str(join_lines(l2)).val]
    /\ ret = NoValue
    /\ fs = EmptyMap
    /\ stdout = <<>>
    /\ exit_code = NoValue

Diff ==
    /\ pc = "ready"
    /\ call.fn = "diff"
    /\ ret' = diff(call.file1, call.file2)
    /\ pc' = "done"
    /\ UNCHANGED <<call, fs, stdout, exit_code>>

SpecDiff == InitDiff /\ [][Diff]_vars

\* The positions of the result's entries for key k
EntriesFor(k) == {i \in 1..Len(ret.entries) : ret.entries[i].key = k}

\* C1: diff(A,B) holds exactly one Removed{k, A[k]} per key of A alone, one
\* Added{k, B[k]} per key of B alone, one Changed{k, A[k], B[k]} per common
\* key whose values differ as strings, nothing for a common key with equal
\* values, and no other entry.
C1_DiffExactEntries ==
    pc = "done" =>
        LET A == call.file1.entries
            B == call.file2.entries
        IN  /\ \A k \in DOMAIN A \ DOMAIN B :
                   \E i \in 1..Len(ret.entries) :
                       EntriesFor(k) = {i} /\ ret.entries[i] = Removed(k, A[k])
            /\ \A k \in DOMAIN B \ DOMAIN A :
                   \E i \in 1..Len(ret.entries) :
                       EntriesFor(k) = {i} /\ ret.entries[i] = Added(k, B[k])
            /\ \A k \in DOMAIN A \cap DOMAIN B :
                   IF A[k] = B[k] THEN EntriesFor(k) = {}
                   ELSE \E i \in 1..Len(ret.entries) :
                            EntriesFor(k) = {i} /\ ret.entries[i] = Changed(k, A[k], B[k])
            /\ \A i \in 1..Len(ret.entries) :
                   ret.entries[i].key \in DOMAIN A \cup DOMAIN B

\* A diff that reports one common key as changed and is silent about another
C1_Witness ==
    /\ pc = "done"
    /\ \E i \in 1..Len(ret.entries) : ret.entries[i].type = "Changed"
    /\ \E k \in DOMAIN call.file1.entries \cap DOMAIN call.file2.entries :
           call.file1.entries[k] = call.file2.entries[k]

\* The sequence ls in the order p
Reordered(ls, p) == [i \in 1..Len(ls) |-> ls[p[i]]]

Reparsed(ls) == EnvFile_from_str(join_lines(ls)).val

\* C2: the entries are in strictly ascending key order, and reordering the
\* lines of either input without changing its lookup map gives the same
\* entry sequence.
C2_DiffSortedOrderIndependent ==
    pc = "done" =>
        /\ \A i, j \in 1..Len(ret.entries) :
               i < j => str_lt(ret.entries[i].key, ret.entries[j].key)
        /\ \A p \in Permutations(1..Len(call.lines1)) :
               LET A2 == Reparsed(Reordered(call.lines1, p)) IN
               A2.entries = call.file1.entries => diff(A2, call.file2) = ret
        /\ \A p \in Permutations(1..Len(call.lines2)) :
               LET B2 == Reparsed(Reordered(call.lines2, p)) IN
               B2.entries = call.file2.entries => diff(call.file1, B2) = ret

\* The keys were found out of order (the removed one is the greater) and the
\* first file's lines are in descending key order
C2_Witness ==
    /\ pc = "done"
    /\ \E i, j \in 1..Len(ret.entries) :
           /\ i < j
           /\ ret.entries[i].type = "Added"
           /\ ret.entries[j].type = "Removed"
    /\ Len(call.file1.lines) = 2
    /\ call.file1.lines[1].type = "KeyValue"
    /\ call.file1.lines[2].type = "KeyValue"
    /\ str_lt(call.file1.lines[2].key, call.file1.lines[1].key)

\* The entry of diff(B,A) that answers e of diff(A,B)
Swapped(e) ==
    CASE e.type = "Added"   -> Removed(e.key, e.value)
      [] e.type = "Removed" -> Added(e.key, e.value)
      [] OTHER              -> Changed(e.key, e.new_value, e.old_value)

\* C3: diff(B,A) is diff(A,B) with Added and Removed exchanged and old and
\* new exchanged in Changed, entry by entry in the same order.
C3_DiffSwap ==
    pc = "done" =>
        LET back == diff(call.file2, call.file1).entries IN
        /\ Len(back) = Len(ret.entries)
        /\ \A i \in 1..Len(back) : back[i] = Swapped(ret.entries[i])

\* A diff with all three kinds of entry
C3_Witness ==
    /\ pc = "done"
    /\ Len(ret.entries) >= 3
    /\ \E i, j, k \in 1..Len(ret.entries) :
           /\ ret.entries[i].type = "Removed"
           /\ ret.entries[j].type = "Added"
           /\ ret.entries[k].type = "Changed"

(***************************************************************************)
(* One value through the Int check of ValueType::validate.                 *)
(***************************************************************************)

MaxIntLen == 3

MaxLeadingZeros == 1

IntChars == {"-", "+", "0", "9", " ", ","}

DigitString(ds) == [i \in 1..Len(ds) |-> DigitChars[ds[i] + 1]]

\* i64::MAX with one digit changed, and its neighbours one digit shorter
\* and one digit longer
NearLimit ==
    { [I64MaxDigits EXCEPT ![i] = d] : i \in 1..Len(I64MaxDigits), d \in 0..9 }
        \cup { SubSeq(I64MaxDigits, 1, Len(I64MaxDigits) - 1), Append(I64MaxDigits, 0) }

\* Every short string, and every number near the limit with or without a
\* sign, leading zeros and a trailing blank
IntInputs ==
    StringsUpTo(IntChars, MaxIntLen)
        \cup { sign \o zeros \o DigitString(n) \o tail :
                 sign \in {<<>>, <<"-">>, <<"+">>},
                 zeros \in StringsUpTo({"0"}, MaxLeadingZeros),
                 n \in NearLimit,
                 tail \in {<<>>, <<" ">>} }

InitInt ==
    /\ pc = "ready"
    /\ \E v \in IntInputs : call = [fn |-> "validate", type |-> "Int", value |-> v]
    /\ ret = NoValue
    /\ fs = EmptyMap
    /\ stdout = <<>>
    /\ exit_code = NoValue

Validate ==
    /\ pc = "ready"
    /\ call.fn = "validate"
    /\ ret' = ValueType_validate(call.type, call.value)
    /\ pc' = "done"
    /\ UNCHANGED <<call, fs, stdout, exit_code>>

SpecInt == InitInt /\ [][Validate]_vars

\* The decimal digits of 2^63 = 9223372036854775808
TwoTo63 == <<9, 2, 2, 3, 3, 7, 2, 0, 3, 6, 8, 5, 4, 7, 7, 5, 8, 0, 8>>

IsDecimal(body) ==
    body # <<>> /\ \A i \in 1..Len(body) : to_digit(body[i]) >= 0

\* The digits of the number written body, without leading zeros
Magnitude(body) ==
    LET nz == {i \in 1..Len(body) : body[i] # "0"} IN
    IF nz = {} THEN <<>>
    ELSE [i \in 1..(Len(body) - SetMin(nz) + 1) |-> to_digit(body[SetMin(nz) + i - 1])]

\* a < b for numbers given by their digits
NumLess(a, b) ==
    \/ Len(a) < Len(b)
    \/ /\ Len(a) = Len(b)
       /\ \E i \in 1..Len(a) : a[i] < b[i] /\ \A j \in 1..(i - 1) : a[j] = b[j]

\* v is an optional sign among signs, then one or more decimal digits, and
\* the number lies in [-2^63, 2^63 - 1]
IsInt64Text(v, signs) ==
    LET signed == v # <<>> /\ v[1] \in signs
        body   == IF signed THEN Tail(v) ELSE v
    IN  /\ IsDecimal(body)
        /\ IF signed /\ v[1] = "-"
           THEN ~NumLess(TwoTo63, Magnitude(body))
           ELSE NumLess(Magnitude(body), TwoTo63)

\* C7 as stated: the Int check accepts exactly an optional "-" and decimal
\* digits whose number is in [-2^63, 2^63 - 1]; a leading "+" is rejected.
C7_IntNoPlus ==
    pc = "done" => (ret <=> IsInt64Text(call.value, {"-"}))

\* C7: the Int check accepts exactly an optional "-" or "+" and one or more
\* decimal digits whose number is in [-2^63, 2^63 - 1]; it rejects the empty
\* string, whitespace, separators, other characters and any number out of
\* range.
C7_IntSigned64 ==
    pc = "done" => (ret <=> IsInt64Text(call.value, {"-", "+"}))

\* -2^63 itself is accepted
C7_Witness ==
    /\ pc = "done"
    /\ ret
    /\ call.value = <<"-">> \o DigitString(TwoTo63)

(***************************************************************************)
(* A schema and a parsed file through validate.                            *)
(***************************************************************************)

MaxEnvLines == 2

SchemaKeys == {<<"a">>, <<"B">>, <<"a", "b">>}

ValueTypes == {"String", "Int", "Bool"}

\* a=1 | a=x | B=TRUE | ab=x | c=1
EnvLines ==
    { <<"a", "=", "1">>, <<"a", "=", "x">>, <<"B", "=", "T", "R", "U", "E">>,
      <<"a", "b", "=", "x">>, <<"c", "=", "1">> }

InitValidate ==
    /\ pc = "ready"
    /\ \E ks \in SUBSET SchemaKeys :
           \E fields \in [ks -> ValueTypes] :
               \E ls \in UNION { [1..n -> EnvLines] : n \in 0..MaxEnvLines } :
                   call = [fn |-> "validate", schema |-> Schema(fields),
                           env |-> EnvFile_from_str(join_lines(ls)).val]
    /\ ret = NoValue
    /\ fs = EmptyMap
    /\ stdout = <<>>
    /\ exit_code = NoValue

ValidateFile ==
    /\ pc = "ready"
    /\ call.fn = "validate"
    /\ ret' = validate(call.schema, call.env)
    /\ pc' = "done"
    /\ UNCHANGED <<call, fs, stdout, exit_code>>

SpecValidate == InitValidate /\ [][ValidateFile]_vars

\* The positions of x in the sequence s
Positions(s, x) == {i \in 1..Len(s) : s[i] = x}

\* The positions of the type errors for key k
TypeErrorsFor(k) == {i \in 1..Len(ret.type_errors) : ret.type_errors[i][1] = k}

\* C5: a schema key absent from the file is once in missing; a file key
\* absent from the schema is once in extra; a common key whose value fails
\* the declared kind's check is once in type_errors with that kind and value;
\* a common key whose value passes is in no list; no key is in two lists,
\* the lists hold nothing else and each is in ascending key order.
C5_ValidatePartition ==
    pc = "done" =>
        LET S == call.schema.fields
            F == call.env.entries
        IN  /\ \A k \in DOMAIN S \cup DOMAIN F :
                   LET m == Cardinality(Positions(ret.missing, k))
                       x == Cardinality(Positions(ret.extra, k))
                       t == Cardinality(TypeErrorsFor(k))
                   IN  CASE k \notin DOMAIN F -> m = 1 /\ x = 0 /\ t = 0
                         [] k \notin DOMAIN S -> m = 0 /\ x = 1 /\ t = 0
                         [] OTHER ->
                              IF ValueType_validate(S[k], F[k])
                              THEN m = 0 /\ x = 0 /\ t = 0
                              ELSE /\ m = 0 /\ x = 0 /\ t = 1
                                   /\ \A i \in TypeErrorsFor(k) :
                                          ret.type_errors[i] = <<k, S[k], F[k]>>
            /\ \A i \in 1..Len(ret.missing) : ret.missing[i] \in DOMAIN S
            /\ \A i \in 1..Len(ret.extra) : ret.extra[i] \in DOMAIN F
            /\ \A i \in 1..Len(ret.type_errors) : ret.type_errors[i][1] \in DOMAIN S
            /\ \A i, j \in 1..Len(ret.missing) :
                   i < j => str_lt(ret.missing[i], ret.missing[j])
            /\ \A i, j \in 1..Len(ret.extra) :
                   i < j => str_lt(ret.extra[i], ret.extra[j])
            /\ \A i, j \in 1..Len(ret.type_errors) :
                   i < j => str_lt(ret.type_errors[i][1], ret.type_errors[j][1])

\* A validation with a missing key, an extra key and a type error at once
C5_Witness ==
    /\ pc = "done"
    /\ ret.missing # <<>>
    /\ ret.extra # <<>>
    /\ ret.type_errors # <<>>

(***************************************************************************)
(* One run of the program: main dispatches the subcommand the arguments    *)
(* parsed to.                                                              *)
(***************************************************************************)

MaxCliLines == 2

\* a=1 | a = x | c=1 | a | # c
CliLines ==
    { <<"a", "=", "1">>, <<"a", " ", "=", " ", "x">>, <<"c", "=", "1">>,
      <<"a">>, <<"#", " ", "c">> }

CliTexts == { join_lines(ls) : ls \in UNION { [1..n -> CliLines] : n \in 0..MaxCliLines } }

YamlMapping(raw) == [yaml |-> "mapping", raw |-> raw]

\* A document that is no mapping, and the mappings {}, {a: int},
\* {a: INT, c: string}, {a: Bool}, {a: float}
SchemaDocuments ==
    { [yaml |-> "malformed"],
      YamlMapping(EmptyMap),
      YamlMapping(<<"a">> :> <<"i", "n", "t">>),
      YamlMapping(<<"a">> :> <<"I", "N", "T">> @@ <<"c">> :> <<"s", "t", "r", "i", "n", "g">>),
      YamlMapping(<<"a">> :> <<"B", "o", "o", "l">>),
      YamlMapping(<<"a">> :> <<"f", "l", "o", "a", "t">>) }

\* The file systems that hold each of the paths ps, or not, with a content
\* among cs
FileSystems(ps, cs, modes) ==
    UNION { [present -> [mode : modes, content : cs]] : present \in SUBSET ps }

InitCli ==
    /\ pc = "ready"
    /\ \/ /\ call = [command |-> "Check", schema |-> "schema.yaml", envfile |-> "a.env"]
          /\ \E sch \in FileSystems({"schema.yaml"}, SchemaDocuments, {"rw"}),
                env \in FileSystems({"a.env"}, CliTexts, {"rw"}) :
                 fs = sch @@ env
       \/ /\ \E f2 \in {"a.env", "b.env"}, redact \in BOOLEAN :
                 call = [command |-> "Diff", file1 |-> "a.env", file2 |-> f2,
                         redact |-> redact]
          /\ fs \in FileSystems({"a.env", "b.env"}, CliTexts, {"rw"})
       \/ /\ \E in_place \in BOOLEAN :
                 call = [command |-> "Format", file |-> "a.env", in_place |-> in_place]
          /\ fs \in FileSystems({"a.env"}, CliTexts, {"rw", "ro"})
    /\ ret = NoValue
    /\ stdout = <<>>
    /\ exit_code = NoValue

\* What main does with the outcome of the subcommand
Finish(outcome) ==
    /\ ret' = outcome.result
    /\ stdout' = outcome.out
    /\ fs' = outcome.files
    /\ exit_code' = exit_code_of(outcome.result)
    /\ pc' = "done"
    /\ UNCHANGED call

MainCheck ==
    /\ pc = "ready"
    /\ call.command = "Check"
    /\ Finish(run_check(fs, call.schema, call.envfile))

MainDiff ==
    /\ pc = "ready"
    /\ call.command = "Diff"
    /\ Finish(run_diff(fs, call.file1, call.file2, call.redact))

MainFormat ==
    /\ pc = "ready"
    /\ call.command = "Format"
    /\ Finish(run_format(fs, call.file, call.in_place))

NextCli == MainCheck \/ MainDiff \/ MainFormat

SpecCli == InitCli /\ [][NextCli]_vars

\* The lookup map the text t stands for: the value after the last "=" line
\* of each key
LookupOf(t) == EnvFile_from_str(t).val.entries

Readable(path) == path \in DOMAIN fs

Parses(path) == Readable(path) /\ MalformedLines(fs[path].content) = {}

\* C4: when the two files of a diff have equal lookup maps (the same file
\* twice, above all) the diff is empty: the command prints "Files are
\* identical", no entry line, and succeeds.
C4_DiffIdentical ==
    (/\ pc = "done"
     /\ call.command = "Diff"
     /\ Parses(call.file1)
     /\ Parses(call.file2)
     /\ LookupOf(fs[call.file1].content) = LookupOf(fs[call.file2].content))
        => /\ stdout = <<Message("Files are identical", 0)>>
           /\ ret = Ok(TRUE)

\* Two files of different text, with the same non-empty lookup map, compared
C4_Witness ==
    /\ pc = "done"
    /\ call.command = "Diff"
    /\ call.file1 # call.file2
    /\ Parses(call.file1)
    /\ Parses(call.file2)
    /\ fs[call.file1].content # fs[call.file2].content
    /\ LookupOf(fs[call.file1].content) = LookupOf(fs[call.file2].content)
    /\ DOMAIN LookupOf(fs[call.file1].content) # {}
    /\ stdout = <<Message("Files are identical", 0)>>

\* The type names a schema may declare
TypeNames ==
    { <<"s", "t", "r", "i", "n", "g">>, <<"i", "n", "t">>,
      <<"i", "n", "t", "e", "g", "e", "r">>, <<"b", "o", "o", "l">>,
      <<"b", "o", "o", "l", "e", "a", "n">> }

\* The schema file decodes and declares known types only
SchemaDecodes(path) ==
    /\ Readable(path)
    /\ fs[path].content.yaml = "mapping"
    /\ \A k \in DOMAIN fs[path].content.raw :
           to_lowercase(fs[path].content.raw[k]) \in TypeNames

\* A file could not be read, an env file failed to parse, or the schema
\* failed to decode or declared an unknown type
CouldNotRun ==
    CASE call.command = "Check" ->
             ~SchemaDecodes(call.schema) \/ ~Parses(call.envfile)
      [] call.command = "Diff" -> ~Parses(call.file1) \/ ~Parses(call.file2)
      [] call.command = "Format" -> ~Parses(call.file)

\* check ran to completion and found a schema key that the file lacks or
\* whose value fails the declared type
CheckFoundError ==
    /\ call.command = "Check"
    /\ ~CouldNotRun
    /\ \E k \in DOMAIN fs[call.schema].content.raw :
           \/ k \notin DOMAIN LookupOf(fs[call.envfile].content)
           \/ ~ValueType_validate(
                  ValueType_from_str(fs[call.schema].content.raw[k], k).val,
                  LookupOf(fs[call.envfile].content)[k])

\* check printed a missing-key or a type error
CheckReportedError ==
    /\ call.command = "Check"
    /\ \E i \in 1..Len(stdout) :
           stdout[i].text \in {"error: missing required key: {key}",
                               "error: key '{key}' has invalid value '{actual_value}' (expected {})"}

\* format --in-place parsed the file and could not write it
CouldNotWrite ==
    /\ call.command = "Format"
    /\ call.in_place
    /\ Parses(call.file)
    /\ fs[call.file].mode = "ro"

\* C6 as stated: exit code 2 exactly when a file could not be read, an env
\* file failed to parse or the schema failed to decode or declared an unknown
\* type; 1 exactly when check completed and reported a missing key or a type
\* error; 0 otherwise.
C6_ExitCodesReadOnly ==
    pc = "done" =>
        /\ (exit_code = 2) <=> CouldNotRun
        /\ (exit_code = 1) <=> CheckFoundError
        /\ (exit_code = 0) <=> (~CouldNotRun /\ ~CheckFoundError)

\* C6: exit code 2 exactly when a file could not be read, an env file failed
\* to parse, the schema failed to decode or declared an unknown type, or
\* format --in-place could not write the file; 1 exactly when check completed
\* and reported a missing key or a type error; 0 otherwise. Extra keys alone
\* never fail check, and diff and format never exit 1.
C6_ExitCodes ==
    pc = "done" =>
        /\ (exit_code = 2) <=> (CouldNotRun \/ CouldNotWrite)
        /\ (exit_code = 1) <=> CheckFoundError
        /\ (exit_code = 0) <=> (~CouldNotRun /\ ~CouldNotWrite /\ ~CheckFoundError)
        /\ (call.command = "Check" /\ ~CouldNotRun) =>
               (CheckFoundError <=> CheckReportedError)
        /\ call.command \in {"Diff", "Format"} => exit_code # 1

\* A check that passes with an extra-key warning
C6_Witness ==
    /\ pc = "done"
    /\ call.command = "Check"
    /\ exit_code = 0
    /\ \E i \in 1..Len(stdout) : stdout[i].text = "warning: extra key not in schema: {key}"

(***************************************************************************)
(* A text through EnvFile::from_str and format_env, and the formatter's    *)
(* output through both once more.                                          *)
(***************************************************************************)

MaxFormatLines == 3

\* b=1 | B=2 | a=2 | b=3 | # c | (empty) | (one blank) | (blank)#c |
\* C=" x " | A="'x'" | a
FormatLines ==
    { <<"b", "=", "1">>, <<"B", "=", "2">>, <<"a", "=", "2">>, <<"b", "=", "3">>,
      <<"#", " ", "c">>, <<>>, <<" ">>, <<" ", "#", "c">>,
      <<"C", "=", "\"", " ", "x", " ", "\"">>,
      <<"A", "=", "\"", "'", "x", "'", "\"">>,
      <<"a">> }

FormatInputs == UNION { [1..n -> FormatLines] : n \in 0..MaxFormatLines }

InitFormat ==
    /\ pc = "ready"
    /\ \E ls \in FormatInputs : call = [fn |-> "format", text |-> join_lines(ls)]
    /\ ret = NoValue
    /\ fs = EmptyMap
    /\ stdout = <<>>
    /\ exit_code = NoValue

\* EnvFile::from_str on the text
ParseFile ==
    /\ pc = "ready"
    /\ call.fn = "format"
    /\ ret' = EnvFile_from_str(call.text)
    /\ pc' = IF ret'.tag = "Ok" THEN "parsed" ELSE "done"
    /\ UNCHANGED <<call, fs, stdout, exit_code>>

\* format_env on the parsed file
FormatEnv ==
    /\ pc = "parsed"
    /\ stdout' = <<format_env(ret.val)>>
    /\ pc' = "formatted"
    /\ UNCHANGED <<call, ret, fs, exit_code>>

\* The output taken as a text: parsed, and formatted if it parses
Reformat ==
    /\ pc = "formatted"
    /\ LET again == EnvFile_from_str(stdout[1]) IN
           /\ ret' = [tag |-> "Ok", val |-> ret.val, again |-> again]
           /\ stdout' = IF again.tag = "Ok"
                        THEN Append(stdout, format_env(again.val))
                        ELSE stdout
    /\ pc' = "done"
    /\ UNCHANGED <<call, fs, exit_code>>

NextFormat == ParseFile \/ FormatEnv \/ Reformat

SpecFormat == InitFormat /\ [][NextFormat]_vars

\* The positions of the KeyValue lines of a parsed file
KeyValuePositions(file) ==
    {i \in 1..Len(file.lines) : file.lines[i].type = "KeyValue"}

\* The positions of the KeyValue lines with key k
PositionsOfKey(file, k) ==
    {i \in KeyValuePositions(file) : file.lines[i].key = k}

\* C11: after a successful parse the lookup map's keys are exactly the keys
\* of the KeyValue lines, compared case-sensitively; each key maps to the
\* value of the last KeyValue line with that key; and every key-value line
\* of the text, an earlier line of a repeated key included, is in the line
\* sequence.
C11_LookupLastWins ==
    (pc = "parsed" /\ ret.tag = "Ok") =>
        LET file  == ret.val
            lines == PhysicalLines(call.text)
        IN  /\ DOMAIN file.entries = {file.lines[i].key : i \in KeyValuePositions(file)}
            /\ \A k \in DOMAIN file.entries :
                   file.entries[k] = file.lines[SetMax(PositionsOfKey(file, k))].value
            /\ Len(file.lines) = Len(lines)
            /\ KeyValuePositions(file) = {i \in 1..Len(lines) : IsKeyValueLine(lines[i])}

\* b=1, B=2, b=3 parsed: b maps to 3, B to 2, and the three lines are kept
C11_Witness ==
    /\ pc = "parsed"
    /\ ret.tag = "Ok"
    /\ Cardinality(KeyValuePositions(ret.val)) = 3
    /\ DOMAIN ret.val.entries = {<<"b">>, <<"B">>}
    /\ ret.val.entries[<<"b">>] = <<"3">>
    /\ ret.val.lines[1] = KeyValue(<<"b">>, <<"1">>)

(***************************************************************************)
(* A key -> type-string mapping through Schema::from_str.                  *)
(***************************************************************************)

MaxSchemaKeys == 3

SchemaKeyPool == <<<<"a">>, <<"B">>, <<"a", "b">>, <<"c">>, <<"D">>>>

\* string | Int | INTEGER | bool | Boolean | number | (empty) | str | int(blank)
TypeStrings ==
    { <<"s", "t", "r", "i", "n", "g">>, <<"I", "n", "t">>,
      <<"I", "N", "T", "E", "G", "E", "R">>, <<"b", "o", "o", "l">>,
      <<"B", "o", "o", "l", "e", "a", "n">>, <<"n", "u", "m", "b", "e", "r">>,
      <<>>, <<"s", "t", "r">>, <<"i", "n", "t", " ">> }

InitSchema ==
    /\ pc = "ready"
    /\ \E ks \in SUBSET {SchemaKeyPool[i] : i \in 1..MaxSchemaKeys} :
           \E raw \in [ks -> TypeStrings] :
               call = [fn |-> "Schema::from_str", content |-> YamlMapping(raw)]
    /\ ret = NoValue
    /\ fs = EmptyMap
    /\ stdout = <<>>
    /\ exit_code = NoValue

BuildSchema ==
    /\ pc = "ready"
    /\ call.fn = "Schema::from_str"
    /\ ret' = Schema_from_str(call.content)
    /\ pc' = "done"
    /\ UNCHANGED <<call, fs, stdout, exit_code>>

SpecSchema == InitSchema /\ [][BuildSchema]_vars

\* The value type a type string names, by its lowercased spelling
TypeNamed(t) ==
    LET l == [i \in 1..Len(t) |->
                 IF \E j \in 1..26 : UpperChars[j] = t[i]
                 THEN LowerChars[CHOOSE j \in 1..26 : UpperChars[j] = t[i]]
                 ELSE t[i]]
    IN  CASE l = <<"s", "t", "r", "i", "n", "g">> -> "String"
          [] l = <<"i", "n", "t">> -> "Int"
          [] l = <<"i", "n", "t", "e", "g", "e", "r">> -> "Int"
          [] l = <<"b", "o", "o", "l">> -> "Bool"
          [] l = <<"b", "o", "o", "l", "e", "a", "n">> -> "Bool"
          [] OTHER -> "none"

\* C12: building a schema succeeds exactly when every type string names a
\* type, and then maps every key to the type named; otherwise it fails with
\* InvalidType carrying an offending type string as written and its key, and
\* no schema is produced.
C12_SchemaBuild ==
    (pc = "done" /\ call.fn = "Schema::from_str") =>
        LET raw == call.content.raw
            bad == {k \in DOMAIN raw : TypeNamed(raw[k]) = "none"}
        IN  /\ (ret.tag = "Ok") <=> (bad = {})
            /\ ret.tag = "Ok" =>
                   /\ DOMAIN ret.val.fields = DOMAIN raw
                   /\ \A k \in DOMAIN raw : ret.val.fields[k] = TypeNamed(raw[k])
            /\ ret.tag # "Ok" =>
                   /\ ret.tag = "Err"
                   /\ \E k \in bad : ret.err = InvalidType(raw[k], k)

\* A mapping with a valid and an invalid entry: InvalidType, no schema
C12_Witness ==
    /\ pc = "done"
    /\ call.fn = "Schema::from_str"
    /\ ret.tag = "Err"
    /\ \E k \in DOMAIN call.content.raw : TypeNamed(call.content.raw[k]) = "Int"
    /\ \E k \in DOMAIN call.content.raw :
           ret.err = InvalidType(<<"i", "n", "t", " ">>, k)

(***************************************************************************)
(* The formatter's output read line by line.                               *)
(***************************************************************************)

\* The lines of the output
OutLines == PhysicalLines(stdout[1])

\* The key-value lines of the output, in order
OutKeyValueLines == SelectSeq(OutLines, IsKeyValueLine)

\* The text before the first "=" of a key-value line
KeyText(l) == SubSeq(l, 1, FirstEq(l) - 1)

\* s with every ASCII lowercase letter replaced by its capital
Uppercased(s) ==
    [i \in 1..Len(s) |->
        CASE s[i] = "a" -> "A" [] s[i] = "b" -> "B" [] s[i] = "c" -> "C"
          [] s[i] = "x" -> "X" [] OTHER -> s[i]]

\* The line format writes for the key-value line at position i of the file
EntryLine(file, i) ==
    Uppercased(file.lines[i].key) \o <<"=">> \o Trimmed(file.lines[i].value)

\* C13: every key-value line of the output is K=v with K the uppercased key
\* of a key-value line of the input, and the key-value lines are in
\* ascending order of K, whatever the input order.
C13_UppercaseSorted ==
    pc = "formatted" =>
        LET kv == OutKeyValueLines IN
        /\ \A j \in 1..Len(kv) :
               /\ KeyText(kv[j]) = Trimmed(KeyText(kv[j]))
               /\ \E i \in KeyValuePositions(ret.val) :
                      KeyText(kv[j]) = Uppercased(ret.val.lines[i].key)
        /\ \A j \in 1..(Len(kv) - 1) : ~str_lt(KeyText(kv[j + 1]), KeyText(kv[j]))
        /\ Len(kv) > 0 <=> KeyValuePositions(ret.val) # {}

\* b=1 then a=2 in the input, A=2 then B=1 in the output
C13_Witness ==
    /\ pc = "formatted"
    /\ ret.val.lines = <<KeyValue(<<"b">>, <<"1">>), KeyValue(<<"a">>, <<"2">>)>>
    /\ OutKeyValueLines = <<<<"A", "=", "2">>, <<"B", "=", "1">>>>

\* C14: formatting reaches a fixed point after one pass: the output O of a
\* text that parses itself parses, and formatting it gives O again,
\* character for character.
C14_FixedPoint ==
    pc = "done" /\ ret.tag = "Ok" =>
        /\ ret.again.tag = "Ok"
        /\ Len(stdout) = 2
        /\ stdout[2] = stdout[1]

\* The file is canonical: every key is uppercase and the key-value lines
\* are in ascending key order
IsCanonical(file) ==
    /\ \A i \in KeyValuePositions(file) :
           file.lines[i].key = Uppercased(file.lines[i].key)
    /\ \A i, j \in KeyValuePositions(file) :
           i < j => ~str_lt(file.lines[j].key, file.lines[i].key)

\* C15: for a canonical file, parsing the formatter's output gives a lookup
\* map equal to the file's.
C15_CanonicalRoundTrip ==
    (pc = "done" /\ ret.tag = "Ok" /\ IsCanonical(ret.val)) =>
        /\ ret.again.tag = "Ok"
        /\ ret.again.val.entries = ret.val.entries

\* C16: the formatter never changes a value: each key-value line of the
\* file has its output line, and the text after "=" on it is exactly the
\* value the parser stored.
C16_ValueUnchanged ==
    pc = "formatted" =>
        LET kv == OutKeyValueLines IN
        /\ Len(kv) = Cardinality(KeyValuePositions(ret.val))
        /\ \A i \in KeyValuePositions(ret.val) :
               \E j \in 1..Len(kv) :
                   kv[j] = Uppercased(ret.val.lines[i].key) \o <<"=">>
                               \o ret.val.lines[i].value

(***************************************************************************)
(* The layout of the output, stated from the parsed file.                  *)
(***************************************************************************)

\* The key-value line at i comes before the one at j in the output: by
\* uppercased key, and in input order when the uppercased keys are equal
Before(file, i, j) ==
    \/ str_lt(Uppercased(file.lines[i].key), Uppercased(file.lines[j].key))
    \/ /\ Uppercased(file.lines[i].key) = Uppercased(file.lines[j].key)
       /\ i < j

\* The place of the key-value line at i among the entries of the output
Rank(file, i) == 1 + Cardinality({j \in KeyValuePositions(file) : Before(file, j, i)})

\* The position in the file of the r-th entry of the output
EntryAt(file, r) == CHOOSE i \in KeyValuePositions(file) : Rank(file, i) = r

\* A comment or blank line of the file as the formatter writes it: the
\* comment as it was written, the blank line empty
Rendered(file, i) ==
    IF file.lines[i].type = "Comment" THEN file.lines[i].text ELSE <<>>

\* The comment and blank lines at the positions from..to of the file
BlockLines(file, from, to) == [n \in 1..(to - from + 1) |-> Rendered(file, from + n - 1)]

\* The header block: the lines before the first key-value line
HeaderBlock(file) ==
    IF KeyValuePositions(file) = {} THEN BlockLines(file, 1, Len(file.lines))
    ELSE BlockLines(file, 1, SetMin(KeyValuePositions(file)) - 1)

\* The comment block of the key-value line at i: the lines between the
\* previous key-value line and i (none for the first key-value line, whose
\* preceding lines are the header)
CommentBlock(file, i) ==
    LET earlier == {j \in KeyValuePositions(file) : j < i} IN
    IF earlier = {} THEN <<>> ELSE BlockLines(file, SetMax(earlier) + 1, i - 1)

\* The trailing block: the lines after the last key-value line
TrailingBlock(file) ==
    IF KeyValuePositions(file) = {} THEN <<>>
    ELSE BlockLines(file, SetMax(KeyValuePositions(file)) + 1, Len(file.lines))

\* The entries r..n of the output, each after its comment block
RECURSIVE EntriesLayout(_, _)
EntriesLayout(file, r) ==
    IF r > Cardinality(KeyValuePositions(file)) THEN <<>>
    ELSE CommentBlock(file, EntryAt(file, r))
             \o <<EntryLine(file, EntryAt(file, r))>>
             \o EntriesLayout(file, r + 1)

Layout(file) == HeaderBlock(file) \o EntriesLayout(file, 1) \o TrailingBlock(file)

\* C17: in redaction mode an entry line is its marker and its key and
\* nothing of its values: entries of the same kind and key render to the
\* same text, and a diff with --redact prints, for the keys that differ in
\* ascending order, "+ KEY", "- KEY" or "~ KEY".
C17_RedactedLines ==
    (/\ pc = "done"
     /\ call.command = "Diff"
     /\ call.redact
     /\ Parses(call.file1)
     /\ Parses(call.file2))
        => LET A == LookupOf(fs[call.file1].content)
               B == LookupOf(fs[call.file2].content)
               differing == SortedKeys({k \in DOMAIN A \cup DOMAIN B :
                                           k \notin DOMAIN A \/ k \notin DOMAIN B
                                               \/ A[k] # B[k]})
               marker(k) == IF k \notin DOMAIN A THEN "+"
                            ELSE IF k \notin DOMAIN B THEN "-" ELSE "~"
               values == {<<>>, <<"1">>, <<"x">>, <<"s", "e", "c", "r", "e", "t">>}
           IN  differing # <<>> =>
                   /\ Len(stdout) = Len(differing) + 2
                   /\ \A i \in 1..Len(differing) :
                          LET k == differing[i]
                              line == <<marker(k), " ">> \o k
                          IN  /\ stdout[i] = Printed(line)
                              /\ \A v, w \in values :
                                     /\ DiffEntry_format(Added(k, v), TRUE) = <<"+", " ">> \o k
                                     /\ DiffEntry_format(Removed(k, v), TRUE) = <<"-", " ">> \o k
                                     /\ DiffEntry_format(Changed(k, v, w), TRUE) = <<"~", " ">> \o k

\* a=1 against a = x, c=1 with --redact: "~ a" and "+ c" are printed
C17_Witness ==
    /\ pc = "done"
    /\ call.command = "Diff"
    /\ call.redact
    /\ Len(stdout) = 4
    /\ stdout[1] = Printed(<<"~", " ", "a">>)
    /\ stdout[2] = Printed(<<"+", " ", "c">>)

\* C18 as stated: the output is the header block, then each entry in
\* sorted order after its comment block, then the trailing block, and the
\* comment and blank lines of the blocks are the input's lines verbatim.
C18_LayoutVerbatim ==
    pc = "formatted" =>
        /\ stdout[1] = join_lines(Layout(ret.val))
        /\ \A i \in (1..Len(ret.val.lines)) \ KeyValuePositions(ret.val) :
               Rendered(ret.val, i) = PhysicalLines(call.text)[i]

\* C18: the output is the header block, then for each entry in sorted order
\* its comment block followed by its UPPERKEY=value line, then the trailing
\* block; a comment line is written as it was in the input and a blank line
\* as an empty line; every line ends with a newline.
C18_Layout ==
    pc = "formatted" => stdout[1] = join_lines(Layout(ret.val))

\* b=1, # c, a=2: the comment moves with a=2 to the front
C18_Witness ==
    /\ pc = "formatted"
    /\ ret.val.lines = <<KeyValue(<<"b">>, <<"1">>), Comment(<<"#", " ", "c">>),
                         KeyValue(<<"a">>, <<"2">>)>>
    /\ OutLines = <<<<"#", " ", "c">>, <<"A", "=", "2">>, <<"B", "=", "1">>>>

\* The place the pair (uppercased key, original key) gives the key-value
\* line at i, lines of one key in input order
PairRank(file, i) ==
    1 + Cardinality({j \in KeyValuePositions(file) :
            LET ki == file.lines[i].key
                kj == file.lines[j].key
            IN  \/ str_lt(Uppercased(kj), Uppercased(ki))
                \/ Uppercased(kj) = Uppercased(ki) /\ str_lt(kj, ki)
                \/ kj = ki /\ j < i})

\* C19: entries are ordered by the pair (uppercased key, original key):
\* of two lines whose different keys uppercase to the same string, the one
\* with the smaller original key is written first, whatever the input order.
C19_TieBreakOriginalKey ==
    pc = "formatted" =>
        \A i \in KeyValuePositions(ret.val) :
            OutKeyValueLines[PairRank(ret.val, i)] = EntryLine(ret.val, i)

\* The keys written on more than one key-value line
RepeatedKeys(file) ==
    {k \in DOMAIN file.entries : Cardinality(PositionsOfKey(file, k)) > 1}

\* C20 as stated: a key written on several key-value lines has one line
\* in the output, carrying the lookup map's value.
C20_LastValueOnly ==
    pc = "formatted" =>
        \A k \in RepeatedKeys(ret.val) :
            LET written == {j \in 1..Len(OutKeyValueLines) :
                               \E p \in PositionsOfKey(ret.val, k) :
                                   OutKeyValueLines[j] = EntryLine(ret.val, p)}
            IN  /\ Cardinality(written) = 1
                /\ \A j \in written :
                       OutKeyValueLines[j] =
                           Uppercased(k) \o <<"=">> \o Trimmed(ret.val.entries[k])

\* The line of the output that holds the key-value line at i of the file
OutIndex(file, i) ==
    Len(HeaderBlock(file)) + Len(EntriesLayout(file, 1))
        - Len(EntriesLayout(file, Rank(file, i) + 1))

\* C20: a key written on several key-value lines has one output line for
\* each of them, in their input order, each carrying its own line's value
\* and preceded by its own comment block; nothing is dropped.
C20_EveryLineKept ==
    pc = "formatted" =>
        /\ RepeatedKeys(ret.val) # {} =>
               Len(OutKeyValueLines) = Cardinality(KeyValuePositions(ret.val))
        /\ \A k \in RepeatedKeys(ret.val) :
               \A p \in PositionsOfKey(ret.val, k) :
                   LET at    == OutIndex(ret.val, p)
                       block == CommentBlock(ret.val, p)
                   IN  /\ OutKeyValueLines[Rank(ret.val, p)] = EntryLine(ret.val, p)
                       /\ at - Len(block) >= 1
                       /\ SubSeq(OutLines, at - Len(block), at)
                              = block \o <<EntryLine(ret.val, p)>>

\* b=1, # c, b=3: both lines and the comment are written
C20_Witness ==
    /\ pc = "formatted"
    /\ ret.val.lines = <<KeyValue(<<"b">>, <<"1">>), Comment(<<"#", " ", "c">>),
                         KeyValue(<<"b">>, <<"3">>)>>
    /\ OutLines = <<<<"B", "=", "1">>, <<"#", " ", "c">>, <<"B", "=", "3">>>>

\* The line the formatter writes for the element at position i of the file
ElementLine(file, i) ==
    IF file.lines[i].type = "KeyValue" THEN EntryLine(file, i) ELSE Rendered(file, i)

\* C21: the formatter neither drops nor invents lines: the output is one
\* newline-terminated line per element of the parsed line sequence, each
\* Comment's text, an empty line per Blank and a KEY=value line per
\* KeyValue, each as often as the file holds it, so the output has as many
\* lines as the input.
C21_LinesPreserved ==
    pc = "formatted" =>
        LET file == ret.val
            out  == stdout[1]
        IN  /\ Len(OutLines) = Len(file.lines)
            /\ Len(OutLines) = Len(PhysicalLines(call.text))
            /\ Cardinality({p \in 1..Len(out) : out[p] = "\n"}) = Len(file.lines)
            /\ out # <<>> => out[Len(out)] = "\n"
            /\ \A i \in 1..Len(file.lines) :
                   Cardinality({j \in 1..Len(OutLines) : OutLines[j] = ElementLine(file, i)})
                       = Cardinality({j \in 1..Len(file.lines) :
                                         ElementLine(file, j) = ElementLine(file, i)})

\* b=1, a blank line and a trailing comment: three lines in, three out
C21_Witness ==
    /\ pc = "formatted"
    /\ ret.val.lines = <<KeyValue(<<"b">>, <<"1">>), Blank, Comment(<<"#", " ", "c">>)>>
    /\ OutLines = <<<<"B", "=", "1">>, <<>>, <<"#", " ", "c">>>>

\* A run of format --in-place on a file that can be read
InPlaceRun ==
    /\ pc = "ready"
    /\ call.command = "Format"
    /\ call.in_place
    /\ Readable(call.file)

\* The files after the file of the run was overwritten with the formatter's
\* output for its content
Overwritten ==
    [fs EXCEPT ![call.file].content =
        join_lines(Layout(EnvFile_from_str(fs[call.file].content).val))]

\* The run ends with the parse error of the file and leaves every file as
\* it was
EndsWithParseError ==
    /\ fs' = fs
    /\ exit_code' = 2
    /\ ret'.tag = "Err"
    /\ ret'.err.kind = "InvalidLine"
    /\ stdout' = <<>>

\* C22 as stated: format --in-place leaves the file unchanged and exits 2
\* with a parse error when a line is malformed, and overwrites the file
\* with the formatter's output whenever the file parses.
C22_InPlaceAlwaysWritten ==
    [][InPlaceRun =>
           IF Parses(call.file)
           THEN fs' = Overwritten
           ELSE EndsWithParseError]_vars

\* C22: format --in-place leaves the file unchanged and exits 2 with a
\* parse error when a line is malformed; when the file parses it is written
\* once with the formatter's output and the run exits 0, unless the write
\* fails, and then the run exits 2 with an I/O error.
C22_InPlaceWrite ==
    [][InPlaceRun =>
           IF ~Parses(call.file) THEN EndsWithParseError
           ELSE IF fs[call.file].mode = "rw"
           THEN /\ fs' = Overwritten
                /\ exit_code' = 0
                /\ stdout' = <<[text |-> "Formatted: {}", path |-> call.file]>>
           ELSE /\ exit_code' = 2
                /\ ret' = Err(IoError)]_vars

\* A file with lowercase keys, formatted in place: it now holds the
\* uppercased lines
C22_Witness ==
    /\ pc = "done"
    /\ call.command = "Format"
    /\ call.in_place
    /\ exit_code = 0
    /\ fs[call.file].content = <<"A", "=", "1", "\n", "C", "=", "1", "\n">>

====
